---------------------------- MODULE Spec2Model ----------------------------
(***************************************************************************)
(* One call session of the voice bot: handleStream and processUserInput   *)
(* of src/src/voice/streamHandler.ts together with the speech-to-text     *)
(* bridge createSttStream of src/unnamed/part_000 (stt/deepgram.ts).      *)
(*                                                                         *)
(* Every step of the model is one run-to-completion piece of the code:    *)
(* one WebSocket event handler, one provider connection event, one timer  *)
(* callback, or the continuation of an async function after one await.    *)
(* Texts are sequences of one-character strings so that trim() is         *)
(* computed and not assumed.                                               *)
(***************************************************************************)
EXTENDS Integers, Sequences, FiniteSets, Bags, TLC

(***************************************************************************)
(* Bounds of the model.                                                    *)
(***************************************************************************)
MaxRuns == 2
MaxBridges == 1
MaxStarts == 1
MaxFrames == 1
\* Bridges and forwarded frames of a session in which the provider delivers
\* no transcript (BridgeSpec).
MaxLifecycleBridges == 2
MaxLifecycleFrames == 2
MaxOrderedFrames == 2
MaxBoundStarts == 2
MaxSttWrites == 2
MaxSttStops == 2
MaxTtsCalls == 2
MaxBrainCalls == 2
MaxIsolatedRuns == 1

RunIds == 1..MaxRuns
BridgeIds ==
    1..(IF MaxBridges > MaxLifecycleBridges THEN MaxBridges
        ELSE MaxLifecycleBridges)
GreetIds == 1..MaxStarts
BoundGreetIds == 1..MaxBoundStarts

(***************************************************************************)
(* Values.  NoVal stands for null / undefined / an absent JSON field.      *)
(***************************************************************************)
NoVal == <<"null">>

\* Stream ids a start event may carry.
StreamSids == {<<"M","Z","1">>}
\* The stream ids of StartSpec: a second id tells a rebinding apart.
BoundSids == StreamSids \cup {<<"M","Z","2">>}
\* What the connection parameters and BOT_VERTICAL may hold as vertical.
VerticalParams == {<<"null">>, <<"s","a","l","e","s">>,
                   <<"s","u","p","p","o","r","t">>}
\* Vertical ids a start event, the connection parameters or BOT_VERTICAL carry.
VerticalIds == {<<"s","u","p","p","o","r","t">>}
sales == <<"s","a","l","e","s">>
support == <<"s","u","p","p","o","r","t">>

\* Transcript texts the speech-to-text provider may deliver (untrimmed).
RawTexts == {<<>>, <<" ">>, <<"h","i">>, <<" ","h","i"," ">>}
\* The transcripts of OrderSpec: a second utterance tells caller turns apart.
OrderedTexts == RawTexts \cup {<<"n","o">>}
\* Replies the reasoning engine may return.
Replies == {<<"o","k">>}
\* Audio buffers the synthesis provider may return (bytes); <<>> is the
\* empty buffer of a provider that is not configured.
Audios == {<<>>, <<77, 97>>}
\* The null that .catch(() => null) yields in place of a buffer.
NullAudio == <<-1>>
\* Optional flags of a provider transcript (speech_final, is_final).
OptBool == {"absent", "true", "false"}

VARIABLES
    ws,            \* ws.readyState: "OPEN" or "CLOSED"
    streamSid,     \* ctx.streamSid (NoVal = null)
    vertical,      \* ctx.vertical
    messages,      \* ctx.messages
    isSpeaking,    \* ctx.isSpeaking (awaiting-response)
    sttStream,     \* handleStream's sttStream: 0 = null, else a bridge id
    bridges,       \* the createSttStream objects and their provider connection
    silenceTimer,  \* the silence timers of handleStream: the number of pending
                   \* callbacks, the handle silenceTimer referring to the newest
    turnTimeout,   \* handleStream's turnTimeout handle: 0 = null, else a run id
    runs,          \* processUserInput invocations
    greets,        \* greeting dispatches (the async IIFE of the start branch)
    sent,          \* bag of the media events ws.send was called with
    msgRun,        \* history: the run that pushed each entry of messages
    tornDown,      \* history: "no" until a stop event or a channel close is
                   \* handled, "just" right after one, "earlier" afterwards
    dg,            \* part_000's and part_001's dg: TRUE when DEEPGRAM_API_KEY
                   \* is set
    tts,           \* a textToSpeech call: its position in the provider chain
    brain,         \* a runBrain call: its position and what it did so far
    peer,          \* the state of a second session of the process, as its own
                   \* handleStream call holds it, while its handlers do not run
    cur            \* the session whose handlers run: 1 or 2

vars == <<ws, streamSid, vertical, messages, isSpeaking, sttStream, bridges,
          silenceTimer, turnTimeout, runs, greets, sent, msgRun, tornDown,
          dg, tts, brain, peer, cur>>

\* The state of the session whose handlers run.
Session ==
    [ws |-> ws, streamSid |-> streamSid, vertical |-> vertical,
     messages |-> messages, isSpeaking |-> isSpeaking, sttStream |-> sttStream,
     bridges |-> bridges, silenceTimer |-> silenceTimer,
     turnTimeout |-> turnTimeout, runs |-> runs, greets |-> greets,
     sent |-> sent, msgRun |-> msgRun, tornDown |-> tornDown]

(***************************************************************************)
(* Pure helpers.                                                           *)
(***************************************************************************)
IsSpace(c) == c = " "

RECURSIVE TrimStart(_)
TrimStart(s) ==
    IF s # <<>> /\ IsSpace(Head(s)) THEN TrimStart(Tail(s)) ELSE s

RECURSIVE TrimEnd(_)
TrimEnd(s) ==
    IF s # <<>> /\ IsSpace(s[Len(s)]) THEN TrimEnd(SubSeq(s, 1, Len(s) - 1))
    ELSE s

\* String.prototype.trim
Trim(s) == TrimEnd(TrimStart(s))

\* JavaScript truthiness of a string
TruthyStr(s) == s # NoVal /\ s # <<>>

\* a ?? b
Coalesce(a, b) == IF a # NoVal THEN a ELSE b

IsPrefix(s, t) == Len(s) <= Len(t) /\ SubSeq(t, 1, Len(s)) = s

(***************************************************************************)
(* Buffer.prototype.toString('base64') on a sequence of bytes, and the     *)
(* decoding a receiver of the media event applies to the payload.          *)
(***************************************************************************)
Base64Alphabet ==
    <<"A","B","C","D","E","F","G","H","I","J","K","L","M","N","O","P",
      "Q","R","S","T","U","V","W","X","Y","Z","a","b","c","d","e","f",
      "g","h","i","j","k","l","m","n","o","p","q","r","s","t","u","v",
      "w","x","y","z","0","1","2","3","4","5","6","7","8","9","+","/">>

Base64Char(n) == Base64Alphabet[n + 1]

Base64Index(c) == (CHOOSE i \in 1..64 : Base64Alphabet[i] = c) - 1

RECURSIVE Base64(_)
Base64(b) ==
    IF Len(b) = 0 THEN <<>>
    ELSE IF Len(b) = 1
    THEN <<Base64Char(b[1] \div 4), Base64Char((b[1] % 4) * 16), "=", "=">>
    ELSE IF Len(b) = 2
    THEN <<Base64Char(b[1] \div 4),
           Base64Char((b[1] % 4) * 16 + b[2] \div 16),
           Base64Char((b[2] % 16) * 4), "=">>
    ELSE <<Base64Char(b[1] \div 4),
           Base64Char((b[1] % 4) * 16 + b[2] \div 16),
           Base64Char((b[2] % 16) * 4 + b[3] \div 64),
           Base64Char(b[3] % 64)>> \o Base64(SubSeq(b, 4, Len(b)))

RECURSIVE Base64Decode(_)
Base64Decode(p) ==
    IF Len(p) < 4 THEN <<>>
    ELSE LET i1 == Base64Index(p[1])
             i2 == Base64Index(p[2])
             rest == Base64Decode(SubSeq(p, 5, Len(p)))
         IN  IF p[3] = "=" THEN <<i1 * 4 + i2 \div 16>>
             ELSE LET i3 == Base64Index(p[3])
                  IN  IF p[4] = "="
                      THEN <<i1 * 4 + i2 \div 16, (i2 % 16) * 16 + i3 \div 4>>
                      ELSE <<i1 * 4 + i2 \div 16, (i2 % 16) * 16 + i3 \div 4,
                             (i3 % 4) * 64 + Base64Index(p[4])>> \o rest

(***************************************************************************)
(* Media frames.  A frame is the parsed media event: msg.media.payload     *)
(* (NoVal when it is missing), whether it is truthy, the chunk             *)
(* Buffer.from(payload, 'base64') and its length.                          *)
(***************************************************************************)
FrameOf(p) ==
    LET c == IF TruthyStr(p) THEN Base64Decode(p) ELSE <<>>
    IN  [payload |-> p, truthy |-> TruthyStr(p), chunk |-> c, len |-> Len(c)]

\* no payload, a payload that decodes to nothing, a payload of one byte
Frames == {FrameOf(NoVal), FrameOf(<<"=">>), FrameOf(<<"B","w","=","=">>)}

\* The frames of BridgeSpec: a second one-byte payload tells frames apart.
LifecycleFrames == Frames \cup {FrameOf(<<"C","Q","=","=">>)}

(***************************************************************************)
(* getVertical and the greetings of the configured verticals.              *)
(***************************************************************************)
SalesGreeting ==
    <<"H","i",","," ","t","h","a","n","k","s"," ","f","o","r"," ","c","a",
      "l","l","i","n","g","."," ","I","'","m"," ","h","e","r","e"," ","t",
      "o"," ","h","e","l","p"," ","y","o","u"," ","l","e","a","r","n"," ",
      "m","o","r","e"," ","a","b","o","u","t"," ","w","h","a","t"," ","w",
      "e"," ","o","f","f","e","r","."," ","W","h","a","t"," ","b","r","o",
      "u","g","h","t"," ","y","o","u"," ","t","o"," ","u","s"," ","t","o",
      "d","a","y","?">>

SupportGreeting ==
    <<"T","h","a","n","k","s"," ","f","o","r"," ","c","a","l","l","i","n",
      "g","."," ","I","'","m"," ","h","e","r","e"," ","t","o"," ","h","e",
      "l","p","."," ","W","h","a","t"," ","c","a","n"," ","I"," ","a","s",
      "s","i","s","t"," ","y","o","u"," ","w","i","t","h","?">>

fallback ==
    <<"S","o","r","r","y",","," ","I"," ","h","a","d"," ","a"," ","s","m",
      "a","l","l"," ","h","i","c","c","u","p","."," ","C","a","n"," ","y",
      "o","u"," ","s","a","y"," ","t","h","a","t"," ","a","g","a","i","n",
      "?">>

\* Mutant of getVertical: every id resolves to the sales configuration.
getVerticalSales(v) == [name |-> sales, greeting |-> SalesGreeting]

\* getVertical(vertical).greeting for the built-in verticals of the model;
\* an unknown or empty id resolves to the sales configuration.
getVertical(v) ==
    LET id == IF TruthyStr(v) THEN v ELSE sales
    IN  IF id = support THEN [name |-> support, greeting |-> SupportGreeting]
        ELSE [name |-> sales, greeting |-> SalesGreeting]

\* handleStream: params.vertical ?? process.env.BOT_VERTICAL ?? 'sales'
InitialVertical(paramVertical, envVertical) ==
    Coalesce(paramVertical, Coalesce(envVertical, sales))

(***************************************************************************)
(* The speech-to-text bridge (createSttStream).  A bridge record holds the *)
(* closure variables connection (TRUE = not null) and closed, and the      *)
(* provider connection it opened: sock is "none", "connecting", "open" or  *)
(* "closed", handler tells whether the Transcript handler is registered,   *)
(* finishes counts finish() calls and forwarded lists the chunks            *)
(* connection.send was called with.                                        *)
(***************************************************************************)
NewBridge ==
    [made |-> FALSE, connection |-> FALSE, closed |-> FALSE, sock |-> "none",
     handler |-> FALSE, finishes |-> 0, forwarded |-> <<>>]

\* createSttStream(...).start()
SttStart(br) ==
    IF ~dg THEN br
    ELSE IF br.connection THEN br
    ELSE [br EXCEPT !.closed = FALSE, !.connection = TRUE,
                    !.sock = "connecting", !.handler = FALSE]

\* Mutant of SttWrite: every non-empty chunk is sent.
SttWriteUnguarded(br, chunk) ==
    IF Len(chunk) > 0
    THEN [br EXCEPT !.forwarded = Append(@, chunk)]
    ELSE br

\* Mutant of SttWrite: the chunk is sent ahead of what was sent before.
SttWriteAhead(br, chunk) ==
    IF br.connection /\ ~br.closed /\ Len(chunk) > 0
    THEN [br EXCEPT !.forwarded = <<chunk>> \o @]
    ELSE br

\* createSttStream(...).write(chunk)
SttWrite(br, chunk) ==
    IF br.connection /\ ~br.closed /\ Len(chunk) > 0
    THEN [br EXCEPT !.forwarded = Append(@, chunk)]
    ELSE br

\* createSttStream(...).stop()
SttStop(br) ==
    [br EXCEPT !.closed = TRUE,
               !.finishes = IF br.connection THEN @ + 1 ELSE @,
               !.connection = FALSE]

\* Mutant of IsFinalOf: either flag being true makes the transcript final.
IsFinalEither(speechFinal, isFinalFlag) ==
    \/ speechFinal = "true"
    \/ isFinalFlag = "true"
    \/ (speechFinal = "absent" /\ isFinalFlag = "absent")

\* speech_final ?? is_final ?? true
IsFinalOf(speechFinal, isFinalFlag) ==
    IF speechFinal # "absent" THEN speechFinal = "true"
    ELSE IF isFinalFlag # "absent" THEN isFinalFlag = "true"
    ELSE TRUE

TotalForwarded ==
    LET RECURSIVE Sum(_)
        Sum(b) == IF b = 0 THEN 0 ELSE Len(bridges[b].forwarded) + Sum(b - 1)
    IN  Sum(Cardinality(BridgeIds))

MadeBridges == {b \in BridgeIds : bridges[b].made}

(***************************************************************************)
(* Runs of processUserInput.  pc is "idle" (not started), "brain" (await   *)
(* runBrain), "tts" (await textToSpeech(reply)), "fallbackTts" (await      *)
(* textToSpeech(fallback) in the catch block) or "done"; timeout is the    *)
(* local timer: "none", "armed", "fired" or "cleared" (clearTimeout was    *)
(* called on it); text is the text of the textToSpeech call the run        *)
(* awaits (NoVal while it awaits none).                                    *)
(***************************************************************************)
NewRun == [pc |-> "idle", timeout |-> "none", reply |-> NoVal, text |-> NoVal]

\* A greeting dispatch: pc is "idle", "tts" (await textToSpeech(greeting)),
\* "done" or "rejected" (the IIFE's promise rejected, and nobody handles it);
\* config is the vertical whose configuration the handler resolved; its
\* greeting is the text handed to textToSpeech.
NewGreet == [pc |-> "idle", config |-> NoVal]

InFlight == {"brain", "tts", "fallbackTts"}

StartedRuns == {r \in RunIds : runs[r].pc # "idle"}
RunningRuns == {r \in RunIds : runs[r].pc \in InFlight}

\* clearTimeout(handle): whatever the timer's state, it is not pending after
ClearTimer(t) == "cleared"

\* The media event written to the channel for an audio buffer.
\* src is history: the dispatch that wrote the event.
MediaEvent(audio, src) ==
    [streamSid |-> streamSid, payload |-> Base64(audio), src |-> src]

\* Mutant of SendGuard: the stream id is not looked at.
SendGuardNoSid(audio) == audio # NullAudio /\ ws = "OPEN"

\* if (audio && ws.readyState === WebSocket.OPEN && ctx.streamSid) ws.send(...)
\* A Buffer is truthy whatever its length; only null is not.
SendGuard(audio) == audio # NullAudio /\ ws = "OPEN" /\ TruthyStr(streamSid)

(***************************************************************************)
(* textToSpeech (part_001).  A call record holds the position of the call  *)
(* in the provider chain, the keys it found configured, the providers it   *)
(* requested audio from, in order, the raw audio and the result.           *)
(***************************************************************************)
\* Audio a synthesis provider may answer with.
RawAudios == {<<>>, <<77, 97>>}
\* What ffmpeg may make of raw audio.
MulawAudios == {<<>>, <<255>>}

NewTts == [pc |-> "idle", eleven |-> FALSE, openai |-> FALSE, tried |-> <<>>,
           raw |-> NoVal, result |-> NoVal, calls |-> 0]

\* textToSpeech after getRawTts resolved with raw
AfterRawTts(t, raw) ==
    IF Len(raw) = 0
    THEN [t EXCEPT !.pc = "resolved", !.raw = raw, !.result = raw]
    ELSE [t EXCEPT !.pc = "toMulaw8k", !.raw = raw]

\* openaiTts(text) up to its first await
openaiTts(t) ==
    IF ~t.openai THEN AfterRawTts(t, <<>>)
    ELSE [t EXCEPT !.pc = "openaiTts", !.tried = Append(@, "openai")]

\* Mutant of fallbackTts: OpenAI is asked before ElevenLabs.
fallbackTtsOpenaiFirst(t) ==
    IF t.openai
    THEN [t EXCEPT !.pc = "openaiTts", !.tried = Append(@, "openai")]
    ELSE IF t.eleven
    THEN [t EXCEPT !.pc = "elevenLabsTts", !.tried = Append(@, "elevenlabs")]
    ELSE AfterRawTts(t, <<>>)

\* fallbackTts(text) up to its first await
fallbackTts(t) ==
    IF t.eleven
    THEN [t EXCEPT !.pc = "elevenLabsTts", !.tried = Append(@, "elevenlabs")]
    ELSE openaiTts(t)

\* getRawTts(text) up to its first await
getRawTts(t) ==
    IF dg THEN [t EXCEPT !.pc = "deepgramTts", !.tried = Append(@, "deepgram")]
    ELSE fallbackTts(t)

(***************************************************************************)
(* runBrain (part_002).  A call record holds the position of the call, the *)
(* completion requests it made, the tools it ran and its result.           *)
(***************************************************************************)
\* `No API key for ${provider}. ...` (its first words)
NoKeyMessage == <<"N","o"," ","A","P","I"," ","k","e","y">>
\* 'I did not get a response. Can you repeat?' (its first words)
NoChoiceMessage == <<"I"," ","d","i","d"," ","n","o","t"," ","g","e","t"," ","a"," ","r","e","s","p","o","n","s","e",".">>
\* 'Done. Anything else?'
DoneMessage == <<"D","o","n","e","."," ","A","n","y","t","h","i","n","g"," ","e","l","s","e","?">>
\* 'Anything else I can help with?' (its first words)
AnythingElseMessage == <<"A","n","y","t","h","i","n","g"," ","e","l","s","e">>

\* message.content of a completion: null, empty, blank, or text
ModelTexts == {NoVal, <<>>, <<" ">>, <<"o","k">>, <<" ","o","k"," ">>}
\* The tool calls a completion's message may carry.
ToolCallCounts == 0..2
\* completion.choices[0]: undefined, or a message
Choices == {[none |-> TRUE, toolCalls |-> 0, content |-> NoVal]} \cup
           [none : {FALSE}, toolCalls : ToolCallCounts, content : ModelTexts]

NewBrain == [pc |-> "idle", requests |-> 0, tools |-> 0, result |-> NoVal,
             calls |-> 0]

\* Mutant of ReplyOf: the model's text is returned whatever it is.
ReplyOfRaw(text) == IF text = NoVal THEN AnythingElseMessage ELSE text

\* (text && text.trim()) || 'Anything else I can help with?'
ReplyOf(text) ==
    IF TruthyStr(text) /\ TruthyStr(Trim(text)) THEN Trim(text)
    ELSE AnythingElseMessage

\* text && text.trim() ? text : 'Done. Anything else?'
FollowUpReplyOf(text) ==
    IF TruthyStr(text) /\ TruthyStr(Trim(text)) THEN text ELSE DoneMessage

\* What a runBrain call may resolve with.
BrainReplies ==
    {NoKeyMessage, NoChoiceMessage} \cup {ReplyOf(t) : t \in ModelTexts}
    \cup {FollowUpReplyOf(t) : t \in ModelTexts}

\* No second session.
NoPeer == <<>>

\* What a handleStream call has made when it returns: ctx and the locals of
\* its closure, the channel, and the history variables of the session.
NewSession ==
    [ws |-> "OPEN", streamSid |-> NoVal,
     vertical |-> InitialVertical(NoVal, NoVal), messages |-> <<>>,
     isSpeaking |-> FALSE, sttStream |-> 0,
     bridges |-> [b \in BridgeIds |-> NewBridge], silenceTimer |-> 0,
     turnTimeout |-> 0, runs |-> [r \in RunIds |-> NewRun],
     greets |-> [g \in GreetIds |-> NewGreet], sent |-> EmptyBag,
     msgRun |-> <<>>, tornDown |-> "no"]

\* handleStream up to the registration of its handlers, but for ctx.vertical
\* and the greeting dispatches the session has room for
SessionInit ==
    /\ ws = "OPEN"
    /\ streamSid = NoVal
    /\ messages = <<>>
    /\ isSpeaking = FALSE
    /\ sttStream = 0
    /\ bridges = [b \in BridgeIds |-> NewBridge]
    /\ silenceTimer = 0
    /\ turnTimeout = 0
    /\ runs = [r \in RunIds |-> NewRun]
    /\ sent = EmptyBag
    /\ msgRun = <<>>
    /\ tornDown = "no"
    /\ dg \in BOOLEAN
    /\ tts = NewTts
    /\ brain = NewBrain
    /\ cur = 1

Init ==
    \* no vertical in the connection parameters, BOT_VERTICAL not set
    /\ vertical = InitialVertical(NoVal, NoVal)
    /\ greets = [g \in GreetIds |-> NewGreet]
    /\ peer = NoPeer
    /\ SessionInit

\* Two sessions of one process: a second handleStream call has made its own
\* ctx and locals.
IsolationInit ==
    /\ vertical = InitialVertical(NoVal, NoVal)
    /\ greets = [g \in GreetIds |-> NewGreet]
    /\ peer = NewSession
    /\ SessionInit

\* A session started with any connection parameter and any BOT_VERTICAL
StartInit ==
    /\ vertical \in {InitialVertical(p, e) : p \in VerticalParams,
                                              e \in VerticalParams}
    /\ greets = [g \in BoundGreetIds |-> NewGreet]
    /\ peer = NoPeer
    /\ SessionInit

\* The history variable tornDown after a step that is no teardown.
Later == IF tornDown = "no" THEN "no" ELSE "earlier"

(***************************************************************************)
(* handleStream's local functions.                                         *)
(***************************************************************************)
\* if (silenceTimer) clearTimeout(silenceTimer), on the pending callbacks
ClearPending(n) == IF n > 0 THEN n - 1 ELSE n

\* Mutant of resetSilenceTimer: the pending timer is not cleared.
resetSilenceTimerNoClear == IF silenceTimer < 2 THEN silenceTimer + 1 ELSE 2

\* resetSilenceTimer(): clear the pending timer, arm a new one
resetSilenceTimer == ClearPending(silenceTimer) + 1

\* clearTurnTimeout(): clears the timer turnTimeout refers to, if any
clearTurnTimeout(rs) ==
    IF turnTimeout # 0
    THEN [rs EXCEPT ![turnTimeout].timeout = ClearTimer(@)]
    ELSE rs


(***************************************************************************)
(* ws.on('message'): the media, start and stop branches.                   *)
(***************************************************************************)
\* The bridge the media branch writes to: the current one, or a new one.
FreshBridge == Cardinality(MadeBridges) + 1

\* event 'media' with msg.media.payload, in a session that creates at most
\* maxBridges bridges and forwards at most maxFrames frames
\* Mutant of OnMediaWithin: a frame is dropped while the bot is speaking.
OnMediaBlocked(f, maxBridges, maxFrames) ==
    /\ ws = "OPEN"
    /\ f \in LifecycleFrames
    /\ TotalForwarded < maxFrames
    /\ IF ~f.truthy \/ isSpeaking
       THEN UNCHANGED <<sttStream, bridges, silenceTimer>>
       ELSE /\ sttStream = 0 => FreshBridge <= maxBridges
            /\ LET b == IF sttStream = 0 THEN FreshBridge ELSE sttStream
                   br0 == IF sttStream = 0
                          THEN SttStart([NewBridge EXCEPT !.made = TRUE])
                          ELSE bridges[b]
               IN  /\ sttStream' = b
                   /\ bridges' = [bridges EXCEPT ![b] = SttWrite(br0, f.chunk)]
            /\ silenceTimer' = resetSilenceTimer
    /\ tornDown' = Later
    /\ UNCHANGED <<ws, streamSid, vertical, messages, isSpeaking,
                   turnTimeout, runs, greets, sent, msgRun, dg, tts, brain, peer, cur>>

OnMediaWithin(f, maxBridges, maxFrames) ==
    /\ ws = "OPEN"
    /\ f \in LifecycleFrames
    /\ TotalForwarded < maxFrames
    /\ IF ~f.truthy
       THEN UNCHANGED <<sttStream, bridges, silenceTimer>>
       ELSE /\ sttStream = 0 => FreshBridge <= maxBridges
            /\ LET b == IF sttStream = 0 THEN FreshBridge ELSE sttStream
                   br0 == IF sttStream = 0
                          THEN SttStart([NewBridge EXCEPT !.made = TRUE])
                          ELSE bridges[b]
               IN  /\ sttStream' = b
                   /\ bridges' = [bridges EXCEPT ![b] = SttWrite(br0, f.chunk)]
            /\ silenceTimer' = resetSilenceTimer
    /\ tornDown' = Later
    /\ UNCHANGED <<ws, streamSid, vertical, messages, isSpeaking,
                   turnTimeout, runs, greets, sent, msgRun, dg, tts, brain, peer, cur>>

OnMedia(f) == OnMediaWithin(f, MaxBridges, MaxFrames)

OnMediaOrdered(f) == OnMediaWithin(f, MaxBridges, MaxOrderedFrames)

OnMediaLifecycle(f) ==
    OnMediaWithin(f, MaxLifecycleBridges, MaxLifecycleFrames)

\* Mutant of OnStartWithin: a start event without stream id unbinds the id.
OnStartUnbinds(sid, v, maxStarts) ==
    /\ ws = "OPEN"
    /\ sid \in BoundSids \cup {NoVal}
    /\ v \in VerticalIds \cup {NoVal}
    /\ \E g \in DOMAIN greets :
        /\ g <= maxStarts
        /\ greets[g].pc = "idle"
        /\ \A h \in DOMAIN greets : h < g => greets[h].pc # "idle"
        /\ LET vert == IF TruthyStr(v) THEN v ELSE vertical
           IN  /\ vertical' = vert
               /\ greets' = [greets EXCEPT ![g] =
                       [pc |-> "tts", config |-> getVertical(vert).name]]
    /\ streamSid' = sid
    /\ silenceTimer' = resetSilenceTimer
    /\ isSpeaking' = TRUE
    /\ tornDown' = Later
    /\ UNCHANGED <<ws, messages, sttStream, bridges, turnTimeout, runs, sent,
                   msgRun, dg, tts, brain, peer, cur>>

\* event 'start': bind stream id and vertical, reset the silence timer and
\* dispatch the greeting up to its await.
OnStartWithin(sid, v, maxStarts) ==
    /\ ws = "OPEN"
    /\ sid \in BoundSids \cup {NoVal}
    /\ v \in VerticalIds \cup {NoVal}
    /\ \E g \in DOMAIN greets :
        /\ g <= maxStarts
        /\ greets[g].pc = "idle"
        /\ \A h \in DOMAIN greets : h < g => greets[h].pc # "idle"
        /\ LET vert == IF TruthyStr(v) THEN v ELSE vertical
           IN  /\ vertical' = vert
               /\ greets' = [greets EXCEPT ![g] =
                       [pc |-> "tts", config |-> getVertical(vert).name]]
    /\ streamSid' = IF TruthyStr(sid) THEN sid ELSE streamSid
    /\ silenceTimer' = resetSilenceTimer
    /\ isSpeaking' = TRUE
    /\ tornDown' = Later
    /\ UNCHANGED <<ws, messages, sttStream, bridges, turnTimeout, runs, sent,
                   msgRun, dg, tts, brain, peer, cur>>

OnStart(sid, v) == OnStartWithin(sid, v, MaxStarts)

OnStartBound(sid, v) == OnStartWithin(sid, v, MaxBoundStarts)

\* event 'stop'
OnStop ==
    /\ ws = "OPEN"
    /\ bridges' = IF sttStream # 0
                  THEN [bridges EXCEPT ![sttStream] = SttStop(@)]
                  ELSE bridges
    /\ sttStream' = 0
    /\ tornDown' = "just"
    /\ UNCHANGED <<ws, streamSid, vertical, messages, isSpeaking, silenceTimer,
                   turnTimeout, runs, greets, sent, msgRun, dg, tts, brain, peer, cur>>

\* Mutant of OnOtherMessage: any inbound message counts as activity.
OnOtherMessageResets ==
    /\ ws = "OPEN"
    /\ silenceTimer' = resetSilenceTimer
    /\ tornDown' = Later
    /\ UNCHANGED <<ws, streamSid, vertical, messages, isSpeaking, sttStream,
                   bridges, turnTimeout, runs, greets, sent, msgRun, dg, tts, brain, peer, cur>>

\* invalid JSON, an unknown event, or a media event without payload
OnOtherMessage ==
    /\ ws = "OPEN"
    /\ tornDown' = Later
    /\ UNCHANGED <<ws, streamSid, vertical, messages, isSpeaking, sttStream,
                   bridges, silenceTimer, turnTimeout, runs, greets, sent,
                   msgRun, dg, tts, brain, peer, cur>>

\* ws.on('close')
OnClose ==
    /\ ws' = "CLOSED"
    /\ silenceTimer' = ClearPending(silenceTimer)
    /\ runs' = clearTurnTimeout(runs)
    /\ turnTimeout' = 0
    /\ bridges' = IF sttStream # 0
                  THEN [bridges EXCEPT ![sttStream] = SttStop(@)]
                  ELSE bridges
    /\ tornDown' = "just"
    /\ UNCHANGED <<streamSid, vertical, messages, isSpeaking, sttStream, greets,
                   sent, msgRun, dg, tts, brain, peer, cur>>

\* Mutant of SilenceTimerFire: the callback marks the session idle.
SilenceTimerFireMarksIdle ==
    /\ silenceTimer > 0
    /\ silenceTimer' = silenceTimer - 1
    /\ isSpeaking' = FALSE
    /\ tornDown' = Later
    /\ UNCHANGED <<ws, streamSid, vertical, messages, sttStream,
                   bridges, turnTimeout, runs, greets, sent, msgRun, dg, tts, brain, peer, cur>>

\* the silence timer's callback: if (ctx.isSpeaking) return; and nothing else
SilenceTimerFire ==
    /\ silenceTimer > 0
    /\ silenceTimer' = silenceTimer - 1
    /\ tornDown' = Later
    /\ UNCHANGED <<ws, streamSid, vertical, messages, isSpeaking, sttStream,
                   bridges, turnTimeout, runs, greets, sent, msgRun, dg, tts, brain, peer, cur>>

(***************************************************************************)
(* Events of a bridge's provider connection.                              *)
(***************************************************************************)
\* LiveTranscriptionEvents.Open: connection?.on(Transcript, ...)
ProviderOpen(b) ==
    /\ bridges[b].sock = "connecting"
    /\ bridges' = [bridges EXCEPT ![b].sock = "open",
                                  ![b].handler = bridges[b].connection]
    /\ tornDown' = Later
    /\ UNCHANGED <<ws, streamSid, vertical, messages, isSpeaking, sttStream,
                   silenceTimer, turnTimeout, runs, greets, sent, msgRun,
                   dg, tts, brain, peer, cur>>

\* LiveTranscriptionEvents.Close
ProviderClose(b) ==
    /\ bridges[b].sock \in {"connecting", "open"}
    /\ bridges' = [bridges EXCEPT ![b].sock = "closed",
                                  ![b].connection = FALSE]
    /\ tornDown' = Later
    /\ UNCHANGED <<ws, streamSid, vertical, messages, isSpeaking, sttStream,
                   silenceTimer, turnTimeout, runs, greets, sent, msgRun,
                   dg, tts, brain, peer, cur>>

\* LiveTranscriptionEvents.Error
ProviderError(b) ==
    /\ bridges[b].sock \in {"connecting", "open"}
    /\ bridges' = [bridges EXCEPT ![b].connection = FALSE]
    /\ tornDown' = Later
    /\ UNCHANGED <<ws, streamSid, vertical, messages, isSpeaking, sttStream,
                   silenceTimer, turnTimeout, runs, greets, sent, msgRun,
                   dg, tts, brain, peer, cur>>


(***************************************************************************)
(* processUserInput, one step per await.                                   *)
(***************************************************************************)
\* Mutant of Finally: the finally block forgets clearTimeout(timeout).
FinallyNoClear(rs, r) == [rs EXCEPT ![r].pc = "done", ![r].text = NoVal]

\* The finally block: clearTimeout(timeout); ctx.isSpeaking = false
Finally(rs, r) ==
    [rs EXCEPT ![r].pc = "done", ![r].timeout = ClearTimer(@),
               ![r].text = NoVal]

\* Mutant of ProcessUserInput: the history is rebuilt from the new turn.
ProcessUserInputFresh(rs, r, text) ==
    /\ messages' = <<[role |-> "user", content |-> text]>>
    /\ msgRun' = <<r>>
    /\ isSpeaking' = TRUE
    /\ runs' = [rs EXCEPT ![r] = [pc |-> "brain", timeout |-> "armed",
                                   reply |-> NoVal, text |-> NoVal]]

\* processUserInput up to await runBrain(config, ctx.messages)
ProcessUserInput(rs, r, text) ==
    /\ messages' = Append(messages, [role |-> "user", content |-> text])
    /\ msgRun' = Append(msgRun, r)
    /\ isSpeaking' = TRUE
    /\ runs' = [rs EXCEPT ![r] = [pc |-> "brain", timeout |-> "armed",
                                   reply |-> NoVal, text |-> NoVal]]

\* Mutant of Ignored: interim transcripts are not filtered out.
IgnoredEmptyOnly(text, isFinal) == ~TruthyStr(Trim(text))

\* if (!text.trim() || !isFinal) return;
Ignored(text, isFinal) == ~TruthyStr(Trim(text)) \/ ~isFinal

\* Mutant of onTranscript: a transcript is dropped while awaiting-response.
onTranscriptGated(text, isFinal) ==
    IF Ignored(text, isFinal) \/ isSpeaking
    THEN UNCHANGED <<messages, msgRun, isSpeaking, runs>>
    ELSE \E r \in RunIds :
              /\ runs[r].pc = "idle"
              /\ \A q \in RunIds : q < r => runs[q].pc # "idle"
              /\ ProcessUserInput(clearTurnTimeout(runs), r, text)

\* the onTranscript callback handleStream gives to createSttStream
onTranscript(text, isFinal) ==
    IF Ignored(text, isFinal)
    THEN UNCHANGED <<messages, msgRun, isSpeaking, runs>>
    ELSE \E r \in RunIds :
              /\ runs[r].pc = "idle"
              /\ \A q \in RunIds : q < r => runs[q].pc # "idle"
              /\ ProcessUserInput(clearTurnTimeout(runs), r, text)

\* The values isFinal takes over the flags a transcript may carry.
Finals == {IsFinalOf(sf, fl) : sf \in OptBool, fl \in OptBool}

\* LiveTranscriptionEvents.Transcript on bridge b's connection, for the
\* transcript text raw and the isFinal computed from the event's flags
ProviderTranscript(b, raw, isFinal) ==
    /\ bridges[b].sock = "open"
    /\ bridges[b].handler
    /\ raw \in OrderedTexts
    /\ isFinal \in Finals
    /\ IF TruthyStr(raw)
       THEN onTranscript(Trim(raw), isFinal)
       ELSE UNCHANGED <<messages, msgRun, isSpeaking, runs>>
    /\ tornDown' = Later
    /\ UNCHANGED <<ws, streamSid, vertical, sttStream, bridges, silenceTimer,
                   turnTimeout, greets, sent, dg, tts, brain, peer, cur>>

\* ctx.messages.push({ role: 'assistant', content: reply }) up to
\* await textToSpeech(reply)
ReplyPushed(r, reply) ==
    /\ runs[r].pc = "brain"
    /\ messages' = Append(messages, [role |-> "assistant", content |-> reply])
    /\ msgRun' = Append(msgRun, r)
    /\ runs' = [runs EXCEPT ![r].pc = "tts", ![r].reply = reply,
                             ![r].text = reply]
    /\ tornDown' = Later
    /\ UNCHANGED <<ws, streamSid, vertical, isSpeaking, sttStream, bridges,
                   silenceTimer, turnTimeout, greets, sent, dg, tts, brain, peer, cur>>

\* runBrain resolves with reply
BrainReturn(r, reply) ==
    /\ reply \in Replies
    /\ ReplyPushed(r, reply)

\* Mutant of BrainFail: the error leaves the run, no fallback is synthesised.
BrainFailPropagates(r) ==
    /\ runs[r].pc = "brain"
    /\ runs' = Finally(runs, r)
    /\ isSpeaking' = FALSE
    /\ tornDown' = Later
    /\ UNCHANGED <<ws, streamSid, vertical, messages, sttStream, bridges,
                   silenceTimer, turnTimeout, greets, sent, msgRun, dg, tts, brain, peer, cur>>

\* Mutant of BrainFail: the fallback phrase is recorded as the agent turn.
BrainFailRecordsFallback(r) ==
    /\ runs[r].pc = "brain"
    /\ messages' = Append(messages, [role |-> "assistant", content |-> fallback])
    /\ msgRun' = Append(msgRun, r)
    /\ runs' = [runs EXCEPT ![r].pc = "fallbackTts", ![r].text = fallback]
    /\ tornDown' = Later
    /\ UNCHANGED <<ws, streamSid, vertical, isSpeaking, sttStream, bridges,
                   silenceTimer, turnTimeout, greets, sent, dg, tts, brain, peer, cur>>

\* runBrain rejects: the catch block up to await textToSpeech(fallback)
BrainFail(r) ==
    /\ runs[r].pc = "brain"
    /\ runs' = [runs EXCEPT ![r].pc = "fallbackTts", ![r].text = fallback]
    /\ tornDown' = Later
    /\ UNCHANGED <<ws, streamSid, vertical, messages, isSpeaking, sttStream,
                   bridges, silenceTimer, turnTimeout, greets, sent, msgRun,
                   dg, tts, brain, peer, cur>>

\* textToSpeech(reply) resolves with audio; sendOk = FALSE: ws.send throws
TtsReturn(r, audio, sendOk) ==
    /\ runs[r].pc = "tts"
    /\ audio \in Audios
    /\ IF SendGuard(audio) /\ ~sendOk
       THEN /\ runs' = [runs EXCEPT ![r].pc = "fallbackTts",
                                     ![r].text = fallback]
            /\ UNCHANGED <<sent, isSpeaking>>
       ELSE /\ sent' = IF SendGuard(audio)
                       THEN sent (+) SetToBag({MediaEvent(audio, <<"reply", r>>)})
                       ELSE sent
            /\ runs' = Finally(runs, r)
            /\ isSpeaking' = FALSE
    /\ tornDown' = Later
    /\ UNCHANGED <<ws, streamSid, vertical, messages, sttStream, bridges,
                   silenceTimer, turnTimeout, greets, msgRun, dg, tts, brain, peer, cur>>

\* textToSpeech(reply) rejects
TtsFail(r) ==
    /\ runs[r].pc = "tts"
    /\ runs' = [runs EXCEPT ![r].pc = "fallbackTts", ![r].text = fallback]
    /\ tornDown' = Later
    /\ UNCHANGED <<ws, streamSid, vertical, messages, isSpeaking, sttStream,
                   bridges, silenceTimer, turnTimeout, greets, sent, msgRun,
                   dg, tts, brain, peer, cur>>

\* Mutant of FallbackTtsReturn: a failed fallback synthesis is tried again.
FallbackTtsRetry(r, audio, sendOk) ==
    /\ runs[r].pc = "fallbackTts"
    /\ audio = NullAudio
    /\ runs' = [runs EXCEPT ![r].pc = "tts", ![r].text = fallback]
    /\ tornDown' = Later
    /\ UNCHANGED <<ws, streamSid, vertical, messages, isSpeaking, sttStream,
                   bridges, silenceTimer, turnTimeout, greets, sent, msgRun,
                   dg, tts, brain, peer, cur>>

\* textToSpeech(fallback).catch(() => null) settles with audio (NullAudio
\* after a rejection); a throwing ws.send leaves through the finally block
\* and the rejection is caught by onTranscript's .catch
FallbackTtsReturn(r, audio, sendOk) ==
    /\ runs[r].pc = "fallbackTts"
    /\ audio \in Audios \cup {NullAudio}
    /\ sent' = IF SendGuard(audio) /\ sendOk
               THEN sent (+) SetToBag({MediaEvent(audio, <<"fallback", r>>)})
               ELSE sent
    /\ runs' = Finally(runs, r)
    /\ isSpeaking' = FALSE
    /\ tornDown' = Later
    /\ UNCHANGED <<ws, streamSid, vertical, messages, sttStream, bridges,
                   silenceTimer, turnTimeout, greets, msgRun, dg, tts, brain, peer, cur>>

\* Mutant of TurnTimerFire: the callback leaves ctx.isSpeaking as it is.
TurnTimerFireNoClear(r) ==
    /\ runs[r].timeout = "armed"
    /\ runs' = [runs EXCEPT ![r].timeout = "fired"]
    /\ tornDown' = Later
    /\ UNCHANGED <<ws, streamSid, vertical, messages, isSpeaking, sttStream,
                   bridges, silenceTimer, turnTimeout, greets, sent, msgRun, dg, tts, brain, peer, cur>>

\* Mutant of TurnTimerFire: the callback also ends the run.
TurnTimerFireAborts(r) ==
    /\ runs[r].timeout = "armed"
    /\ runs' = [runs EXCEPT ![r].timeout = "fired", ![r].pc = "done",
                             ![r].text = NoVal]
    /\ isSpeaking' = FALSE
    /\ tornDown' = Later
    /\ UNCHANGED <<ws, streamSid, vertical, messages, sttStream, bridges,
                   silenceTimer, turnTimeout, greets, sent, msgRun, dg, tts, brain, peer, cur>>

\* the callback of processUserInput's timeout
TurnTimerFire(r) ==
    /\ runs[r].timeout = "armed"
    /\ runs' = [runs EXCEPT ![r].timeout = "fired"]
    /\ isSpeaking' = FALSE
    /\ tornDown' = Later
    /\ UNCHANGED <<ws, streamSid, vertical, messages, sttStream, bridges,
                   silenceTimer, turnTimeout, greets, sent, msgRun, dg, tts, brain, peer, cur>>

(***************************************************************************)
(* The greeting dispatch of the start branch.                              *)
(***************************************************************************)
\* textToSpeech(greeting) resolves; a throwing ws.send rejects the IIFE's
\* promise, which nobody handles
GreetTtsReturn(g, audio, sendOk) ==
    /\ greets[g].pc = "tts"
    /\ audio \in Audios
    /\ sent' = IF SendGuard(audio) /\ sendOk
               THEN sent (+) SetToBag({MediaEvent(audio, <<"greeting", g>>)})
               ELSE sent
    /\ isSpeaking' = FALSE
    /\ greets' = [greets EXCEPT ![g].pc =
                      IF SendGuard(audio) /\ ~sendOk THEN "rejected" ELSE "done"]
    /\ tornDown' = Later
    /\ UNCHANGED <<ws, streamSid, vertical, messages, sttStream, bridges,
                   silenceTimer, turnTimeout, runs, msgRun, dg, tts, brain, peer, cur>>

\* textToSpeech(greeting) rejects: finally runs, the rejection is unhandled
GreetTtsFail(g) ==
    /\ greets[g].pc = "tts"
    /\ isSpeaking' = FALSE
    /\ greets' = [greets EXCEPT ![g].pc = "rejected"]
    /\ tornDown' = Later
    /\ UNCHANGED <<ws, streamSid, vertical, messages, sttStream, bridges,
                   silenceTimer, turnTimeout, runs, sent, msgRun, dg, tts, brain, peer, cur>>

Next ==
    \/ \E f \in Frames : OnMedia(f)
    \/ \E sid \in StreamSids \cup {NoVal}, v \in VerticalIds \cup {NoVal} :
           OnStart(sid, v)
    \/ OnStop
    \/ OnOtherMessage
    \/ OnClose
    \/ SilenceTimerFire
    \/ \E b \in BridgeIds : ProviderOpen(b)
    \/ \E b \in BridgeIds : ProviderClose(b)
    \/ \E b \in BridgeIds : ProviderError(b)
    \/ \E b \in BridgeIds, raw \in RawTexts, isFinal \in Finals :
           ProviderTranscript(b, raw, isFinal)
    \/ \E r \in RunIds, reply \in Replies : BrainReturn(r, reply)
    \/ \E r \in RunIds : BrainFail(r)
    \/ \E r \in RunIds, audio \in Audios, ok \in BOOLEAN : TtsReturn(r, audio, ok)
    \/ \E r \in RunIds : TtsFail(r)
    \/ \E r \in RunIds, audio \in Audios \cup {NullAudio}, ok \in BOOLEAN :
           FallbackTtsReturn(r, audio, ok)
    \/ \E r \in RunIds : TurnTimerFire(r)
    \/ \E g \in GreetIds, audio \in Audios, ok \in BOOLEAN :
           GreetTtsReturn(g, audio, ok)
    \/ \E g \in GreetIds : GreetTtsFail(g)

Spec == Init /\ [][Next]_vars

\* The session while the provider delivers no transcript: no pipeline run
\* starts, and the session may create a bridge again after a stop event.
BridgeNext ==
    \/ \E f \in LifecycleFrames : OnMediaLifecycle(f)
    \/ \E sid \in StreamSids \cup {NoVal}, v \in VerticalIds \cup {NoVal} :
           OnStart(sid, v)
    \/ OnStop
    \/ OnOtherMessage
    \/ OnClose
    \/ SilenceTimerFire
    \/ \E b \in BridgeIds : ProviderOpen(b)
    \/ \E b \in BridgeIds : ProviderClose(b)
    \/ \E b \in BridgeIds : ProviderError(b)
    \/ \E g \in GreetIds, audio \in Audios, ok \in BOOLEAN :
           GreetTtsReturn(g, audio, ok)
    \/ \E g \in GreetIds : GreetTtsFail(g)

BridgeSpec == Init /\ [][BridgeNext]_vars

\* The session of a stream that sends no start event: no greeting is
\* dispatched and streamSid stays unbound, while several audio frames are
\* forwarded and the provider delivers transcripts.
OrderNext ==
    \/ \E f \in LifecycleFrames : OnMediaOrdered(f)
    \/ OnStop
    \/ OnOtherMessage
    \/ OnClose
    \/ SilenceTimerFire
    \/ \E b \in BridgeIds : ProviderOpen(b)
    \/ \E b \in BridgeIds : ProviderClose(b)
    \/ \E b \in BridgeIds : ProviderError(b)
    \/ \E b \in BridgeIds, raw \in OrderedTexts, isFinal \in Finals :
           ProviderTranscript(b, raw, isFinal)
    \/ \E r \in RunIds, reply \in Replies : BrainReturn(r, reply)
    \/ \E r \in RunIds : BrainFail(r)
    \/ \E r \in RunIds, audio \in Audios, ok \in BOOLEAN : TtsReturn(r, audio, ok)
    \/ \E r \in RunIds : TtsFail(r)
    \/ \E r \in RunIds, audio \in Audios \cup {NullAudio}, ok \in BOOLEAN :
           FallbackTtsReturn(r, audio, ok)
    \/ \E r \in RunIds : TurnTimerFire(r)

OrderSpec == Init /\ [][OrderNext]_vars

\* The session of a stream that sends start events only, begun with any
\* connection parameter and any BOT_VERTICAL.
StartNext ==
    \/ \E sid \in BoundSids \cup {NoVal}, v \in VerticalIds \cup {NoVal} :
           OnStartBound(sid, v)
    \/ OnStop
    \/ OnOtherMessage
    \/ OnClose
    \/ SilenceTimerFire
    \/ \E g \in BoundGreetIds, audio \in Audios, ok \in BOOLEAN :
           GreetTtsReturn(g, audio, ok)
    \/ \E g \in BoundGreetIds : GreetTtsFail(g)

StartSpec == StartInit /\ [][StartNext]_vars

(***************************************************************************)
(* The bridge object on its own, under any sequence of calls of its        *)
(* methods by whoever holds it, while the provider delivers no transcript. *)
(***************************************************************************)
\* The chunks written to a bridge.
Chunks == {f.chunk : f \in LifecycleFrames}

\* createSttStream(callbacks, options)
CreateSttStream(b) ==
    /\ ~bridges[b].made
    /\ \A c \in BridgeIds : c < b => bridges[c].made
    /\ bridges' = [bridges EXCEPT ![b].made = TRUE]
    /\ UNCHANGED <<ws, streamSid, vertical, messages, isSpeaking, sttStream,
                   silenceTimer, turnTimeout, runs, greets, sent, msgRun,
                   tornDown, dg, tts, brain, peer, cur>>

\* start() on bridge b
BridgeStart(b) ==
    /\ bridges[b].made
    /\ bridges' = [bridges EXCEPT ![b] = SttStart(@)]
    /\ UNCHANGED <<ws, streamSid, vertical, messages, isSpeaking, sttStream,
                   silenceTimer, turnTimeout, runs, greets, sent, msgRun,
                   tornDown, dg, tts, brain, peer, cur>>

\* write(chunk) on bridge b
BridgeWrite(b, chunk) ==
    /\ bridges[b].made
    /\ chunk \in Chunks
    /\ Len(bridges[b].forwarded) < MaxSttWrites
    /\ bridges' = [bridges EXCEPT ![b] = SttWrite(@, chunk)]
    /\ UNCHANGED <<ws, streamSid, vertical, messages, isSpeaking, sttStream,
                   silenceTimer, turnTimeout, runs, greets, sent, msgRun,
                   tornDown, dg, tts, brain, peer, cur>>

\* stop() on bridge b
BridgeStop(b) ==
    /\ bridges[b].made
    /\ bridges[b].finishes < MaxSttStops
    /\ bridges' = [bridges EXCEPT ![b] = SttStop(@)]
    /\ UNCHANGED <<ws, streamSid, vertical, messages, isSpeaking, sttStream,
                   silenceTimer, turnTimeout, runs, greets, sent, msgRun,
                   tornDown, dg, tts, brain, peer, cur>>

SttNext ==
    \/ \E b \in BridgeIds : CreateSttStream(b)
    \/ \E b \in BridgeIds : BridgeStart(b)
    \/ \E b \in BridgeIds, chunk \in Chunks : BridgeWrite(b, chunk)
    \/ \E b \in BridgeIds : BridgeStop(b)
    \/ \E b \in BridgeIds : ProviderOpen(b)
    \/ \E b \in BridgeIds : ProviderClose(b)
    \/ \E b \in BridgeIds : ProviderError(b)

SttSpec == Init /\ [][SttNext]_vars

\* LiveTranscriptionEvents.Transcript on bridge b's connection, for an event
\* with the transcript text raw and the flags speech_final and is_final
ProviderTranscriptData(b, raw, speechFinal, isFinalFlag) ==
    /\ speechFinal \in OptBool
    /\ isFinalFlag \in OptBool
    /\ ProviderTranscript(b, raw, IsFinalOf(speechFinal, isFinalFlag))

\* The session of a stream that sends no start event, with the provider's
\* transcript events given by their flags.
RelayNext ==
    \/ \E f \in Frames : OnMedia(f)
    \/ OnStop
    \/ OnOtherMessage
    \/ OnClose
    \/ SilenceTimerFire
    \/ \E b \in BridgeIds : ProviderOpen(b)
    \/ \E b \in BridgeIds : ProviderClose(b)
    \/ \E b \in BridgeIds : ProviderError(b)
    \/ \E b \in BridgeIds, raw \in RawTexts, sf \in OptBool, fl \in OptBool :
           ProviderTranscriptData(b, raw, sf, fl)
    \/ \E r \in RunIds, reply \in Replies : BrainReturn(r, reply)
    \/ \E r \in RunIds : BrainFail(r)
    \/ \E r \in RunIds, audio \in Audios, ok \in BOOLEAN : TtsReturn(r, audio, ok)
    \/ \E r \in RunIds : TtsFail(r)
    \/ \E r \in RunIds, audio \in Audios \cup {NullAudio}, ok \in BOOLEAN :
           FallbackTtsReturn(r, audio, ok)
    \/ \E r \in RunIds : TurnTimerFire(r)

RelaySpec == Init /\ [][RelayNext]_vars

(***************************************************************************)
(* A textToSpeech call on its own, one step per await.                     *)
(***************************************************************************)
\* textToSpeech(text) is called in a process with or without
\* ELEVENLABS_API_KEY and OPENAI_API_KEY
TextToSpeechCall(eleven, openai) ==
    /\ tts.pc \in {"idle", "resolved", "rejected"}
    /\ tts.calls < MaxTtsCalls
    /\ tts' = getRawTts([NewTts EXCEPT !.eleven = eleven, !.openai = openai,
                                       !.calls = tts.calls + 1])
    /\ UNCHANGED <<ws, streamSid, vertical, messages, isSpeaking, sttStream,
                   bridges, silenceTimer, turnTimeout, runs, greets, sent,
                   msgRun, tornDown, dg, brain, peer, cur>>

\* deepgramTts resolves with audio
DeepgramTtsReturn(audio) ==
    /\ tts.pc = "deepgramTts"
    /\ audio \in RawAudios
    /\ tts' = AfterRawTts(tts, audio)
    /\ UNCHANGED <<ws, streamSid, vertical, messages, isSpeaking, sttStream,
                   bridges, silenceTimer, turnTimeout, runs, greets, sent,
                   msgRun, tornDown, dg, brain, peer, cur>>

\* deepgramTts rejects: .catch(() => fallbackTts(text))
DeepgramTtsFail ==
    /\ tts.pc = "deepgramTts"
    /\ tts' = fallbackTts(tts)
    /\ UNCHANGED <<ws, streamSid, vertical, messages, isSpeaking, sttStream,
                   bridges, silenceTimer, turnTimeout, runs, greets, sent,
                   msgRun, tornDown, dg, brain, peer, cur>>

\* elevenLabsTts resolves with audio
ElevenLabsTtsReturn(audio) ==
    /\ tts.pc = "elevenLabsTts"
    /\ audio \in RawAudios
    /\ tts' = AfterRawTts(tts, audio)
    /\ UNCHANGED <<ws, streamSid, vertical, messages, isSpeaking, sttStream,
                   bridges, silenceTimer, turnTimeout, runs, greets, sent,
                   msgRun, tornDown, dg, brain, peer, cur>>

\* elevenLabsTts rejects: .catch(() => openaiTts(text))
ElevenLabsTtsFail ==
    /\ tts.pc = "elevenLabsTts"
    /\ tts' = openaiTts(tts)
    /\ UNCHANGED <<ws, streamSid, vertical, messages, isSpeaking, sttStream,
                   bridges, silenceTimer, turnTimeout, runs, greets, sent,
                   msgRun, tornDown, dg, brain, peer, cur>>

\* openai.audio.speech.create resolves with audio
OpenaiTtsReturn(audio) ==
    /\ tts.pc = "openaiTts"
    /\ audio \in RawAudios
    /\ tts' = AfterRawTts(tts, audio)
    /\ UNCHANGED <<ws, streamSid, vertical, messages, isSpeaking, sttStream,
                   bridges, silenceTimer, turnTimeout, runs, greets, sent,
                   msgRun, tornDown, dg, brain, peer, cur>>

\* openai.audio.speech.create rejects, and textToSpeech with it
OpenaiTtsFail ==
    /\ tts.pc = "openaiTts"
    /\ tts' = [tts EXCEPT !.pc = "rejected"]
    /\ UNCHANGED <<ws, streamSid, vertical, messages, isSpeaking, sttStream,
                   bridges, silenceTimer, turnTimeout, runs, greets, sent,
                   msgRun, tornDown, dg, brain, peer, cur>>

\* toMulaw8k(raw) resolves with mulaw: if (mulaw) return mulaw
ToMulaw8kReturn(mulaw) ==
    /\ tts.pc = "toMulaw8k"
    /\ mulaw \in MulawAudios
    /\ tts' = [tts EXCEPT !.pc = "resolved", !.result = mulaw]
    /\ UNCHANGED <<ws, streamSid, vertical, messages, isSpeaking, sttStream,
                   bridges, silenceTimer, turnTimeout, runs, greets, sent,
                   msgRun, tornDown, dg, brain, peer, cur>>

\* toMulaw8k(raw) rejects: .catch(() => null), then return raw
ToMulaw8kFail ==
    /\ tts.pc = "toMulaw8k"
    /\ tts' = [tts EXCEPT !.pc = "resolved", !.result = tts.raw]
    /\ UNCHANGED <<ws, streamSid, vertical, messages, isSpeaking, sttStream,
                   bridges, silenceTimer, turnTimeout, runs, greets, sent,
                   msgRun, tornDown, dg, brain, peer, cur>>

TtsNext ==
    \/ \E eleven \in BOOLEAN, openai \in BOOLEAN : TextToSpeechCall(eleven, openai)
    \/ \E audio \in RawAudios : DeepgramTtsReturn(audio)
    \/ DeepgramTtsFail
    \/ \E audio \in RawAudios : ElevenLabsTtsReturn(audio)
    \/ ElevenLabsTtsFail
    \/ \E audio \in RawAudios : OpenaiTtsReturn(audio)
    \/ OpenaiTtsFail
    \/ \E mulaw \in MulawAudios : ToMulaw8kReturn(mulaw)
    \/ ToMulaw8kFail

TtsSpec == Init /\ [][TtsNext]_vars

(***************************************************************************)
(* A runBrain call, one step per await, and the session its reply goes to. *)
(***************************************************************************)
\* runBrain(config, messages) is called, with or without a client for the
\* provider
RunBrainCall(client) ==
    /\ brain.pc \in {"idle", "resolved", "rejected"}
    /\ brain.calls < MaxBrainCalls
    /\ brain' = IF ~client
                THEN [NewBrain EXCEPT !.pc = "resolved",
                                      !.result = NoKeyMessage,
                                      !.calls = brain.calls + 1]
                ELSE [NewBrain EXCEPT !.pc = "completion", !.requests = 1,
                                      !.calls = brain.calls + 1]
    /\ UNCHANGED <<ws, streamSid, vertical, messages, isSpeaking, sttStream,
                   bridges, silenceTimer, turnTimeout, runs, greets, sent,
                   msgRun, tornDown, dg, tts, peer, cur>>

\* client.chat.completions.create resolves; choice is completion.choices[0]
CompletionReturn(choice) ==
    /\ brain.pc = "completion"
    /\ choice \in Choices
    /\ brain' = IF choice.none
                THEN [brain EXCEPT !.pc = "resolved",
                                   !.result = NoChoiceMessage]
                ELSE IF choice.toolCalls > 0
                THEN [brain EXCEPT !.pc = "runTool", !.tools = @ + 1]
                ELSE [brain EXCEPT !.pc = "resolved",
                                   !.result = ReplyOf(choice.content)]
    /\ UNCHANGED <<ws, streamSid, vertical, messages, isSpeaking, sttStream,
                   bridges, silenceTimer, turnTimeout, runs, greets, sent,
                   msgRun, tornDown, dg, tts, peer, cur>>

\* client.chat.completions.create rejects, and runBrain with it
CompletionFail ==
    /\ brain.pc \in {"completion", "followUp"}
    /\ brain' = [brain EXCEPT !.pc = "rejected"]
    /\ UNCHANGED <<ws, streamSid, vertical, messages, isSpeaking, sttStream,
                   bridges, silenceTimer, turnTimeout, runs, greets, sent,
                   msgRun, tornDown, dg, tts, peer, cur>>

\* runTool(fn.name, args) resolves: the follow-up completion is requested
RunToolReturn ==
    /\ brain.pc = "runTool"
    /\ brain' = [brain EXCEPT !.pc = "followUp", !.requests = @ + 1]
    /\ UNCHANGED <<ws, streamSid, vertical, messages, isSpeaking, sttStream,
                   bridges, silenceTimer, turnTimeout, runs, greets, sent,
                   msgRun, tornDown, dg, tts, peer, cur>>

\* the follow-up completion resolves; choice is followUp.choices[0]
FollowUpReturn(choice) ==
    /\ brain.pc = "followUp"
    /\ choice \in Choices
    /\ brain' = [brain EXCEPT !.pc = "resolved",
                              !.result = FollowUpReplyOf(choice.content)]
    /\ UNCHANGED <<ws, streamSid, vertical, messages, isSpeaking, sttStream,
                   bridges, silenceTimer, turnTimeout, runs, greets, sent,
                   msgRun, tornDown, dg, tts, peer, cur>>

\* const reply = await runBrain(...); ctx.messages.push(...) for a call that
\* resolved
BrainResolve(r) ==
    /\ brain.pc = "resolved"
    /\ brain.result \in BrainReplies
    /\ ReplyPushed(r, brain.result)

\* await runBrain(...) throws for a call that rejected
BrainReject(r) ==
    /\ brain.pc = "rejected"
    /\ BrainFail(r)

BrainNext ==
    \/ \E f \in Frames : OnMedia(f)
    \/ \E b \in BridgeIds : ProviderOpen(b)
    \/ \E b \in BridgeIds, raw \in RawTexts, isFinal \in Finals :
           ProviderTranscript(b, raw, isFinal)
    \/ \E client \in BOOLEAN : RunBrainCall(client)
    \/ \E choice \in Choices : CompletionReturn(choice)
    \/ CompletionFail
    \/ RunToolReturn
    \/ \E choice \in Choices : FollowUpReturn(choice)
    \/ \E r \in RunIds : BrainResolve(r)
    \/ \E r \in RunIds : BrainReject(r)

BrainSpec == Init /\ [][BrainNext]_vars

(***************************************************************************)
(* Two sessions of one process.  The event loop runs one handler at a      *)
(* time; a handler works on the ctx and locals of the handleStream call    *)
(* that registered it.                                                     *)
(***************************************************************************)
\* Mutant of Switch: the history is one array of the module, not of ctx.
SwitchSharedHistory ==
    /\ cur' = 3 - cur
    /\ peer' = Session
    /\ ws' = peer.ws
    /\ streamSid' = peer.streamSid
    /\ vertical' = peer.vertical
    /\ messages' = messages
    /\ isSpeaking' = peer.isSpeaking
    /\ sttStream' = peer.sttStream
    /\ bridges' = peer.bridges
    /\ silenceTimer' = peer.silenceTimer
    /\ turnTimeout' = peer.turnTimeout
    /\ runs' = peer.runs
    /\ greets' = peer.greets
    /\ sent' = peer.sent
    /\ msgRun' = peer.msgRun
    /\ tornDown' = peer.tornDown
    /\ UNCHANGED <<dg, tts, brain>>

\* The next handler to run belongs to the other session.
Switch ==
    /\ cur' = 3 - cur
    /\ peer' = Session
    /\ ws' = peer.ws
    /\ streamSid' = peer.streamSid
    /\ vertical' = peer.vertical
    /\ messages' = peer.messages
    /\ isSpeaking' = peer.isSpeaking
    /\ sttStream' = peer.sttStream
    /\ bridges' = peer.bridges
    /\ silenceTimer' = peer.silenceTimer
    /\ turnTimeout' = peer.turnTimeout
    /\ runs' = peer.runs
    /\ greets' = peer.greets
    /\ sent' = peer.sent
    /\ msgRun' = peer.msgRun
    /\ tornDown' = peer.tornDown
    /\ UNCHANGED <<dg, tts, brain>>

\* The events of the session whose handlers run, for one utterance, one
\* frame and one start event per session.
IsolationNext ==
    \/ Switch
    \/ \E f \in Frames : f.len > 0 /\ OnMedia(f)
    \/ \E sid \in StreamSids, v \in VerticalIds : OnStart(sid, v)
    \/ OnStop
    \/ OnClose
    \/ SilenceTimerFire
    \/ \E b \in BridgeIds : ProviderOpen(b)
    \/ \E b \in BridgeIds :
           /\ Cardinality(StartedRuns) < MaxIsolatedRuns
           /\ ProviderTranscript(b, <<"h","i">>, TRUE)
    \/ \E r \in RunIds, reply \in Replies : BrainReturn(r, reply)
    \/ \E r \in RunIds : TtsReturn(r, <<77, 97>>, TRUE)
    \/ \E r \in RunIds : TurnTimerFire(r)
    \/ \E g \in GreetIds : GreetTtsReturn(g, <<77, 97>>, TRUE)

IsolationSpec == IsolationInit /\ [][IsolationNext]_vars

\* setTimeout callbacks run once their delay has elapsed unless cleared.
FairSpec == Spec /\ \A r \in RunIds : WF_vars(TurnTimerFire(r))


(***************************************************************************)
(* Properties.                                                             *)
(***************************************************************************)
IsUser(m) == m.role = "user"
IsAssistant(m) == m.role = "assistant"

\* What one session owns, the channel itself and the history variables apart.
SessionState ==
    <<streamSid, vertical, messages, isSpeaking, sttStream, bridges,
      silenceTimer, turnTimeout, runs, greets>>

\* C1: pipeline runs of one session never run concurrently: at most one run
\* is between its start and its completion.
C1_NoConcurrentRuns == Cardinality(RunningRuns) <= 1

\* C2: a transcript that is interim, or whose trimmed text is empty, leaves
\* the history, the awaiting-response flag and the runs unchanged: a step
\* that changes one of them is no onTranscript call with such a transcript.
C2_IgnoredTranscriptNoEffect ==
    [][\/ UNCHANGED <<messages, isSpeaking, runs>>
       \/ \A text \in RawTexts, isFinal \in BOOLEAN :
             (Trim(text) = <<>> \/ ~isFinal) => ~onTranscript(text, isFinal)]_vars

\* C2 witness: a run is in flight on a bridge whose connection delivers
\* transcripts; an ignored transcript delivered here ends in this same state.
C2_Witness ==
    /\ \E b \in BridgeIds : bridges[b].sock = "open" /\ bridges[b].handler
    /\ \E r \in RunIds : runs[r].pc = "brain"
    /\ Len(messages) = 1 /\ isSpeaking

\* C3: the history is append-only: in every step the history before is a
\* prefix of the history after.
C3_HistoryAppendOnly == [][IsPrefix(messages, messages')]_vars

\* C3 witness: a history that grew over two runs and a teardown.
C3_Witness == Len(messages) >= 3 /\ tornDown # "no"

\* C4: turns of the same role appear in the history in the dispatch order of
\* their runs (runs are numbered in dispatch order).
C4_HistoryInDispatchOrder ==
    \A i, j \in 1..Len(messages) :
        (i < j /\ messages[i].role = messages[j].role) => msgRun[i] < msgRun[j]

\* C5: between two consecutive caller turns, and after the last one, at most
\* one agent turn is appended (caller turns are appended one per dispatch).
C5_OneAgentTurnPerDispatch ==
    \A i \in 1..(Len(messages) - 1) :
        ~(IsAssistant(messages[i]) /\ IsAssistant(messages[i + 1]))

C7_NoLeakedTurnTimer ==
    [][\A r \in RunIds :
         runs'[r].pc = "done" =>
            /\ runs'[r].timeout = "cleared"
            /\ runs'[r].timeout # "armed"
            /\ (runs[r].pc # "done" => ~isSpeaking')]_vars

\* C7 witness: runs completed on the failure path and on the success path.
C7_Witness ==
    /\ \E r \in RunIds : runs[r].pc = "done" /\ runs[r].reply = NoVal
    /\ \E r \in RunIds : runs[r].pc = "done" /\ runs[r].reply # NoVal

\* C8: a teardown that directly follows a teardown leaves the session state
\* as it is, and finish() is called at most once on a provider connection.
C8_TeardownIdempotent ==
    [][/\ (tornDown = "just" /\ (OnStop \/ OnClose)) => UNCHANGED SessionState
       /\ \A b \in BridgeIds : bridges'[b].finishes <= 1]_vars

\* C9: after a teardown no transcript starts a pipeline run or appends a
\* caller turn.
C9_NoTranscriptAfterTeardown ==
    [][tornDown # "no" =>
          /\ StartedRuns' = StartedRuns
          /\ SelectSeq(messages', IsUser) = SelectSeq(messages, IsUser)]_vars

\* C10: after a teardown no audio frame is forwarded to the provider.
C10_NoFrameAfterTeardown ==
    [][tornDown # "no" => TotalForwarded' = TotalForwarded]_vars

\* C11: after a stop event or a channel close no timer of the session is
\* armed: neither a silence callback nor the turn timer of a run is pending.
C11_NoTimerAfterTeardown ==
    tornDown # "no" =>
        /\ silenceTimer = 0
        /\ \A r \in RunIds : runs[r].timeout # "armed"

\* Provider connections that are open and on which finish() was never called.
OpenConnections ==
    {b \in BridgeIds : bridges[b].sock = "open" /\ bridges[b].finishes = 0}

\* C12: a session has at most one open provider connection.
C12_AtMostOneOpenConnection == Cardinality(OpenConnections) <= 1

\* A step that handles an audio frame: a media event with a payload.
AudioFrameStep == \E f \in LifecycleFrames : f.truthy /\ OnMediaLifecycle(f)

\* C13: every audio frame leaves exactly one silence timer pending, the one
\* it armed; never more than one is pending; and the callback that runs is
\* the one of the latest arming, which no audio frame has replaced.
C13_FrameResetsSilenceTimer ==
    [][/\ AudioFrameStep => silenceTimer' = 1
       /\ silenceTimer' <= 1
       /\ SilenceTimerFire => (silenceTimer = 1 /\ silenceTimer' = 0)]_vars

\* C13 witness: two frames were forwarded, the second re-armed the timer.
C13_Witness == silenceTimer = 1 /\ TotalForwarded >= 2

\* Bridges whose provider connection was requested.
Connected == {b \in BridgeIds : bridges[b].sock # "none"}

\* C14: only an audio frame creates a bridge or a provider connection; the
\* first audio frame creates and starts the bridge and its chunk is handed
\* to the connection; later audio frames create no other bridge.
C14_LazyBridge ==
    [][/\ ~AudioFrameStep => (MadeBridges' = MadeBridges /\ Connected' = Connected)
       /\ \A f \in LifecycleFrames :
            (f.truthy /\ OnMediaLifecycle(f)) =>
               IF MadeBridges = {}
               THEN /\ MadeBridges' = {1} /\ sttStream' = 1
                    /\ dg => (1 \in Connected'
                              /\ bridges'[1].forwarded =
                                    (IF f.len > 0 THEN <<f.chunk>> ELSE <<>>))
               ELSE MadeBridges' = MadeBridges]_vars

\* The number of media events in bag that the dispatch src wrote.
CountSrc(bag, src) ==
    LET S == {e \in BagToSet(bag) : e.src = src}
    IN  BagCardinality([e \in S |-> CopiesIn(e, bag)])

\* The media event a dispatch writes for an audio buffer.
Written(audio, src) ==
    [streamSid |-> streamSid, payload |-> Base64(audio), src |-> src]

\* The channel is open and the stream id is bound.
Writable == ws = "OPEN" /\ TruthyStr(streamSid)

\* C15: a failure of runBrain or of textToSpeech(reply) stays inside the run:
\* the run goes on to synthesise the fallback phrase, and when that audio is
\* ready on an open channel with a bound stream id, it writes one media event
\* with the fallback audio, the only event of that run, and completes.
C15_FallbackOnFailure ==
    [][\A r \in RunIds :
         /\ (BrainFail(r) \/ TtsFail(r)) =>
               /\ runs'[r].pc = "fallbackTts"
               /\ runs'[r].text = fallback
               /\ sent' = sent
         /\ \A audio \in Audios :
               (FallbackTtsReturn(r, audio, TRUE) /\ Writable) =>
                  /\ sent' = sent (+) SetToBag({Written(audio, <<"fallback", r>>)})
                  /\ CountSrc(sent', <<"fallback", r>>) = 1
                  /\ CountSrc(sent', <<"reply", r>>) = 0
                  /\ runs'[r].pc = "done"]_vars

\* C15 witness: a run whose reasoning failed completed after writing its
\* fallback event.
C15_Witness ==
    \E r \in RunIds :
        /\ runs[r].pc = "done" /\ runs[r].reply = NoVal
        /\ CountSrc(sent, <<"fallback", r>>) = 1

\* The history entries a run pushed.
TurnsOf(r) == {i \in 1..Len(messages) : msgRun[i] = r}

\* C16: a run whose reasoning failed has pushed its caller turn and no agent
\* turn.
C16_NoAgentTurnOnReasoningFailure ==
    \A r \in RunIds :
        (runs[r].pc \in {"fallbackTts", "done"} /\ runs[r].reply = NoVal) =>
            /\ Cardinality(TurnsOf(r)) = 1
            /\ \A i \in TurnsOf(r) : IsUser(messages[i])

\* C16 witness: a run whose reasoning failed waits for the fallback audio
\* while the history holds the turns of a run that succeeded.
C16_Witness ==
    \E r \in RunIds :
        /\ runs[r].pc = "fallbackTts" /\ runs[r].reply = NoVal
        /\ Len(messages) = 3

\* The moves of a run: runBrain is called on the move to "brain",
\* textToSpeech on the moves to "tts" and to "fallbackTts".
RunEdges ==
    {<<"idle", "brain">>, <<"brain", "tts">>, <<"brain", "fallbackTts">>,
     <<"tts", "fallbackTts">>, <<"tts", "done">>, <<"fallbackTts", "done">>}

\* C17: when the fallback synthesis fails too, the run writes nothing and
\* completes; a run never moves back, so it calls runBrain at most once and
\* textToSpeech at most twice.
C17_SecondFailureSwallowed ==
    [][\A r \in RunIds :
         /\ runs'[r].pc # runs[r].pc => <<runs[r].pc, runs'[r].pc>> \in RunEdges
         /\ \A ok \in BOOLEAN :
               FallbackTtsReturn(r, NullAudio, ok) =>
                   (sent' = sent /\ runs'[r].pc = "done")]_vars

\* C17 witness: on a writable channel a run whose reasoning failed completed
\* and wrote no event.
C17_Witness ==
    \E r \in RunIds :
        /\ runs[r].pc = "done" /\ runs[r].reply = NoVal /\ Writable
        /\ CountSrc(sent, <<"fallback", r>>) = 0

\* C18: a media event is written only while the channel is open and the
\* stream id is bound, and carries that stream id; audio that is ready in
\* any other state is dropped and its dispatch completes.
C18_SendOnlyWhenOpenAndBound ==
    [][/\ sent' # sent =>
            \A e \in BagToSet(sent') :
               CopiesIn(e, sent') > CopiesIn(e, sent) =>
                   (Writable /\ e.streamSid = streamSid)
       /\ ~Writable =>
            \A audio \in Audios, ok \in BOOLEAN :
               /\ \A r \in RunIds :
                     (TtsReturn(r, audio, ok) \/ FallbackTtsReturn(r, audio, ok))
                        => (sent' = sent /\ runs'[r].pc = "done")
               /\ \A g \in GreetIds :
                     GreetTtsReturn(g, audio, ok)
                        => (sent' = sent /\ greets'[g].pc = "done")]_vars

\* C18 witness: the greeting audio became ready after the channel closed.
C18_Witness ==
    /\ \E g \in GreetIds : greets[g].pc = "done"
    /\ ws = "CLOSED" /\ TruthyStr(streamSid) /\ sent = EmptyBag

\* C19: a start event dispatches the greeting of the vertical it resolved
\* (the support greeting for vertical support), and when the audio is ready
\* on an open channel with a bound stream id exactly one media event is
\* written for that start, whose payload decodes to that audio.
C19_GreetingOnStart ==
    [][/\ \A sid \in StreamSids \cup {NoVal}, v \in VerticalIds \cup {NoVal} :
            \A g \in GreetIds :
               (OnStart(sid, v) /\ greets[g].pc = "idle" /\ greets'[g].pc = "tts")
                  => /\ greets'[g].config = getVertical(vertical').name
                     /\ v = support =>
                           getVertical(vertical').greeting = SupportGreeting
       /\ \A g \in GreetIds, audio \in Audios :
            (GreetTtsReturn(g, audio, TRUE) /\ Writable) =>
               /\ sent' = sent (+) SetToBag({Written(audio, <<"greeting", g>>)})
               /\ CountSrc(sent', <<"greeting", g>>) = 1
               /\ \A e \in BagToSet(sent') :
                     e.src = <<"greeting", g>> => Base64Decode(e.payload) = audio]_vars

\* C19 witness: the support greeting was written, with audio in it.
C19_Witness ==
    \E g \in GreetIds :
        /\ greets[g].pc = "done" /\ greets[g].config = support
        /\ \E e \in BagToSet(sent) : e.src = <<"greeting", g>> /\ e.payload # <<>>

\* C20: a dispatch pushes the caller turn, sets awaiting-response and calls
\* runBrain on the history that ends with that turn; the reply is pushed as
\* an agent turn and handed to textToSpeech; the audio is handed to the
\* output; and a run that started on an empty history leaves the history
\* [caller turn, agent turn] when it completes.
C20_SuccessfulRunOrder ==
    [][\A r \in RunIds :
         /\ (runs[r].pc = "idle" /\ runs'[r].pc # "idle") =>
               /\ runs'[r].pc = "brain"
               /\ Len(messages') = Len(messages) + 1
               /\ IsUser(messages'[Len(messages')])
               /\ msgRun'[Len(msgRun')] = r
               /\ isSpeaking'
         /\ \A reply \in Replies :
               BrainReturn(r, reply) =>
                  /\ messages' = Append(messages, [role |-> "assistant",
                                                   content |-> reply])
                  /\ runs'[r].pc = "tts" /\ runs'[r].text = reply
         /\ \A audio \in Audios :
               TtsReturn(r, audio, TRUE) =>
                  /\ runs'[r].pc = "done"
                  /\ Writable =>
                        sent' = sent (+) SetToBag({Written(audio, <<"reply", r>>)})
                  /\ msgRun[1] = r =>
                        messages = <<messages[1], [role |-> "assistant",
                                                   content |-> runs[r].reply]>>]_vars

\* C21: no failure of runBrain or textToSpeech leaves the session as an
\* unhandled rejection, in a pipeline run or in the greeting dispatch.
C21_NoUnhandledRejection == \A g \in GreetIds : greets[g].pc # "rejected"

\* A step that handles a malformed inbound event.
MalformedStep == OnOtherMessage \/ \E f \in Frames : ~f.truthy /\ OnMedia(f)

\* C22: a malformed inbound event leaves the channel, the stream id, the
\* vertical, the history, the flags, the bridge, the timers, the runs, the
\* greeting dispatches and the written events as they are, so later events
\* are handled from the same state.
C22_MalformedEventDropped ==
    [][MalformedStep =>
          UNCHANGED <<ws, streamSid, vertical, messages, isSpeaking, sttStream,
                      bridges, silenceTimer, turnTimeout, runs, greets,
                      sent>>]_vars

\* C22 witness: a state with a bound stream id, a connected bridge, an armed
\* silence timer and a run in flight, where a malformed event may arrive.
C22_Witness ==
    /\ ws = "OPEN" /\ TruthyStr(streamSid) /\ silenceTimer = 1
    /\ \E b \in BridgeIds : bridges[b].sock = "open" /\ bridges[b].connection
    /\ \E r \in RunIds : runs[r].pc = "tts"

\* The session's bridge lost its connection to a provider error: the
\* reference is gone although the provider has not closed the connection.
AfterProviderError ==
    /\ sttStream # 0
    /\ ~bridges[sttStream].connection
    /\ bridges[sttStream].sock \in {"connecting", "open"}

\* C23: an audio frame that arrives after a provider connection error makes
\* the bridge connect again and is forwarded.
C23_FreshStartAfterError ==
    [][\A f \in LifecycleFrames :
         (/\ OnMediaLifecycle(f) /\ f.truthy /\ f.len > 0 /\ dg
          /\ AfterProviderError) =>
            /\ bridges'[sttStream'].connection
            /\ TotalForwarded' = TotalForwarded + 1]_vars

\* C24: a session to which no vertical was supplied greets with the support
\* vertical.
C24_DefaultVerticalSupport ==
    \A g \in GreetIds :
        (greets[g].pc # "idle" /\ vertical = InitialVertical(NoVal, NoVal)) =>
            greets[g].config = support

\* C25: awaiting-response is true while a greeting dispatch is in flight, and
\* while a run is in flight whose turn timer has not fired.
C25_AwaitingWhileInFlight ==
    (\/ \E g \in GreetIds : greets[g].pc = "tts"
     \/ \E r \in RunIds : runs[r].pc \in InFlight /\ runs[r].timeout # "fired")
        => isSpeaking

\* The runs whose turn timer is armed.
ArmedTurnTimers == {r \in RunIds : runs[r].timeout = "armed"}

\* C26: at most one turn timer is armed per session.
C26_OneTurnTimer == Cardinality(ArmedTurnTimers) <= 1

\* C27: every final transcript with text pushes one caller turn with that
\* text and starts one run in the same step, whatever awaiting-response is
\* and whatever runs are in flight.
C27_AdvisoryOnly ==
    [][\A b \in BridgeIds, raw \in RawTexts :
         (ProviderTranscript(b, raw, TRUE) /\ Trim(raw) # <<>>) =>
            /\ messages' = Append(messages, [role |-> "user",
                                             content |-> Trim(raw)])
            /\ \E r \in RunIds :
                  /\ r \notin StartedRuns
                  /\ StartedRuns' = StartedRuns \cup {r}
                  /\ runs'[r].pc = "brain"]_vars

\* C27 witness: every run of the session is in flight at once.
C27_Witness ==
    /\ \A r \in RunIds : runs[r].pc = "brain"
    /\ Len(messages) = Cardinality(RunIds) /\ isSpeaking

\* C28: the turn timer's callback clears awaiting-response and nothing else;
\* a run whose timer fired still pushes its reply and writes its audio, and
\* a final transcript with text is accepted while that run is in flight.
C28_TimerDoesNotAbort ==
    [][\A r \in RunIds :
         /\ TurnTimerFire(r) =>
               /\ runs'[r].pc = runs[r].pc /\ ~isSpeaking'
               /\ messages' = messages /\ sent' = sent
         /\ runs[r].timeout = "fired" =>
               /\ \A reply \in Replies :
                     BrainReturn(r, reply) =>
                        /\ messages' = Append(messages, [role |-> "assistant",
                                                         content |-> reply])
                        /\ runs'[r].pc = "tts"
               /\ \A audio \in Audios :
                     (TtsReturn(r, audio, TRUE) /\ Writable) =>
                        sent' = sent (+) SetToBag({Written(audio, <<"reply", r>>)})
               /\ runs[r].pc \in InFlight =>
                     \A b \in BridgeIds, raw \in RawTexts :
                        (ProviderTranscript(b, raw, TRUE) /\ Trim(raw) # <<>>) =>
                           /\ Len(messages') = Len(messages) + 1
                           /\ IsUser(messages'[Len(messages')])]_vars

\* C28 witness: the timer of the first run fired, a second caller turn was
\* accepted, and then the first run's reply was pushed.
C28_Witness ==
    /\ runs[1].timeout = "fired" /\ runs[1].pc = "tts"
    /\ runs[2].pc = "brain"
    /\ msgRun = <<1, 2, 1>>

\* The caller turns of the history, in history order.
CallerTurns == SelectSeq(messages, LAMBDA m : m.role = "user")

\* C30: a step changes what a bridge was sent only by appending the chunk of
\* the one audio frame it handles, to the session's current bridge, so the
\* chunks sent are in arrival order, one send per frame, none merged or
\* repeated; and the step that delivers a final non-empty transcript itself
\* starts the next run and appends that transcript as the last caller turn,
\* so runs start in the arrival order of their transcripts.
C30_ArrivalOrder ==
    [][/\ \A b \in BridgeIds :
            \/ bridges'[b].forwarded = bridges[b].forwarded
            \/ \E f \in LifecycleFrames :
                   /\ f.truthy /\ OnMediaOrdered(f)
                   /\ b = sttStream'
                   /\ bridges'[b].forwarded =
                          Append(bridges[b].forwarded, f.chunk)
       /\ \A b \in BridgeIds, raw \in OrderedTexts :
            (/\ ProviderTranscript(b, raw, TRUE)
             /\ TruthyStr(Trim(raw))) =>
                /\ messages' = Append(messages, [role |-> "user",
                                                  content |-> Trim(raw)])
                /\ msgRun' = Append(msgRun, Cardinality(StartedRuns) + 1)
                /\ runs'[Cardinality(StartedRuns) + 1].pc = "brain"
                /\ \A r \in StartedRuns : runs'[r].pc = runs[r].pc
       /\ (\A i \in 1..Len(msgRun) :
              messages[i].role = "user" => runs[msgRun[i]].pc # "idle")
      ]_vars

\* Two different chunks were sent to one bridge in the order their frames
\* arrived, and two runs were started by two different transcripts.
C30_Witness ==
    /\ \E b \in BridgeIds :
          /\ Len(bridges[b].forwarded) = 2
          /\ bridges[b].forwarded[1] # bridges[b].forwarded[2]
    /\ Len(CallerTurns) = 2
    /\ CallerTurns[1].content # CallerTurns[2].content
    /\ \A r \in RunIds : runs[r].pc # "idle"

\* The greeting IIFE of some start event is awaiting textToSpeech.
GreetingInFlight == \E g \in GreetIds : greets[g].pc = "tts"

\* C29: while a greeting synthesis is in flight, a frame with a payload is
\* handled as at any other time: the session has a bridge afterwards, the
\* bridge's connection is sent the chunk when it has one and the chunk is not
\* empty, and one silence timer is pending; and a final non-empty transcript
\* starts a run; in both cases the greeting is still in flight afterwards.
C29_NotBlockedByGreeting ==
    [][GreetingInFlight =>
         /\ \A f \in Frames :
              (f.truthy /\ OnMedia(f)) =>
                 /\ sttStream' # 0
                 /\ silenceTimer' = 1
                 /\ LET old == IF sttStream = 0 THEN <<>>
                               ELSE bridges[sttStream].forwarded
                        conn == IF sttStream = 0 THEN dg
                                ELSE /\ bridges[sttStream].connection
                                     /\ ~bridges[sttStream].closed
                    IN  bridges'[sttStream'].forwarded =
                           (IF conn /\ f.len > 0 THEN Append(old, f.chunk)
                            ELSE old)
                 /\ greets' = greets
         /\ \A b \in BridgeIds, raw \in RawTexts :
              (ProviderTranscript(b, raw, TRUE) /\ TruthyStr(Trim(raw))) =>
                 /\ \E r \in RunIds : runs[r].pc = "idle" /\ runs'[r].pc = "brain"
                 /\ messages' = Append(messages, [role |-> "user",
                                                   content |-> Trim(raw)])
                 /\ greets' = greets
      ]_vars

\* With the greeting still in flight, a frame's chunk has been sent to the
\* bridge, a silence timer is pending and a transcript has started a run.
C29_Witness ==
    /\ GreetingInFlight
    /\ greets[1].pc = "tts" /\ sttStream = 1
    /\ Len(bridges[1].forwarded) = 1
    /\ silenceTimer = 1
    /\ runs[1].pc = "brain"
    /\ streamSid # NoVal

\* C33: the silence timer's callback changes nothing, whether the session is
\* awaiting-response or not: the history, awaiting-response, the stream id,
\* the vertical, the bridge, the runs and their turn timers, the greeting
\* dispatches and the channel are as before, and nothing is written.
C33_SilenceFiringNoEffect ==
    [][SilenceTimerFire =>
          UNCHANGED <<ws, streamSid, vertical, messages, msgRun, isSpeaking,
                      sttStream, bridges, turnTimeout, runs, greets, sent>>
      ]_vars

\* The silence timer a frame armed has fired while a run was in flight and
\* the session awaiting-response; no teardown has cleared it.
C33_Witness ==
    /\ silenceTimer = 0 /\ tornDown = "no" /\ sttStream # 0
    /\ isSpeaking /\ runs[1].pc = "brain"

\* C38: no media event written to the channel carries the payload of an
\* empty audio buffer, whichever dispatch (greeting, reply, fallback) wrote it.
C38_NoEmptyMediaEvent ==
    \A e \in BagToSet(sent) : e.payload # Base64(<<>>)

C37_AgentTurnsWereSpoken ==
    \A r \in RunIds :
        (runs[r].pc = "fallbackTts" /\ runs[r].reply # NoVal) =>
            \A i \in TurnsOf(r) : messages[i].role # "assistant"

\* The media events a step writes to the channel.
NewlySent == {e \in BagToSet(sent') : CopiesIn(e, sent') > CopiesIn(e, sent)}

\* C35: a start event sets the stream id and the vertical to the values it
\* carries and leaves the one it does not carry as it was, so the vertical of
\* a start event beats the initial one, which is the connection parameter
\* when there is one, else BOT_VERTICAL when set, else sales; and every media
\* event written afterwards carries the stream id bound at that time.
C35_StartBinds ==
    [][/\ \A sid \in BoundSids \cup {NoVal}, v \in VerticalIds \cup {NoVal} :
            OnStartBound(sid, v) =>
               /\ streamSid' = (IF sid # NoVal THEN sid ELSE streamSid)
               /\ vertical' = (IF v # NoVal THEN v ELSE vertical)
       /\ \A e \in NewlySent : e.streamSid = streamSid /\ streamSid # NoVal
       /\ \A p \in VerticalParams, e \in VerticalParams :
            InitialVertical(p, e) =
               (IF p # NoVal THEN p ELSE IF e # NoVal THEN e ELSE sales)
      ]_vars

\* A second start event has rebound the stream id and chosen the support
\* vertical, and a greeting was written with the first id and one with the
\* second.
C35_Witness ==
    /\ streamSid = <<"M","Z","2">> /\ vertical = support
    /\ greets[2].pc = "done" /\ greets[2].config = support
    /\ greets[1].config = sales
    /\ {e.streamSid : e \in BagToSet(sent)} = BoundSids

\* C32: a write to a bridge that is stopped (closed, as stop() left it and
\* until start() clears it) sends nothing to the provider, and so does a
\* write of an empty chunk to any bridge; the bridge is otherwise as before.
C32_NoForwardAfterStop ==
    [][\A b \in BridgeIds, chunk \in Chunks :
          (BridgeWrite(b, chunk) /\ (bridges[b].closed \/ Len(chunk) = 0)) =>
              bridges' = bridges
      ]_vars

\* A bridge that was sent a chunk has been stopped and not started again: a
\* write to it is a write after stop().
C32_Witness ==
    \E b \in BridgeIds :
        /\ bridges[b].closed /\ ~bridges[b].connection
        /\ bridges[b].finishes = 1
        /\ Len(bridges[b].forwarded) = 1
        /\ bridges[b].sock = "open"

\* The transcripts the claim calls final, by their flags.
FinalByFlags(speechFinal, isFinalFlag) ==
    \/ speechFinal = "true"
    \/ (speechFinal = "absent" /\ isFinalFlag = "true")
    \/ (speechFinal = "absent" /\ isFinalFlag = "absent")

\* C39: a transcript event reaches the session as a final transcript, and
\* starts a run with its trimmed text, exactly when its text is not empty
\* and speech_final is true, or speech_final is absent and is_final is true
\* or absent too; any other event, one with speech_final false and is_final
\* true included, starts no run and leaves the history alone.
C39_RelayedFinalByFlags ==
    [][\A b \in BridgeIds, raw \in RawTexts, sf \in OptBool, fl \in OptBool :
          ProviderTranscriptData(b, raw, sf, fl) =>
             IF raw # <<>> /\ Trim(raw) # <<>> /\ FinalByFlags(sf, fl)
             THEN /\ messages' = Append(messages, [role |-> "user",
                                                   content |-> Trim(raw)])
                  /\ runs' # runs
             ELSE messages' = messages /\ runs' = runs
      ]_vars

\* A transcript event has been relayed as final and started the first run,
\* with the provider connection open for further events.
C39_Witness ==
    /\ messages = <<[role |-> "user", content |-> <<"h","i">>]>>
    /\ runs[1].pc = "brain" /\ runs[2].pc = "idle"
    /\ sttStream = 1 /\ bridges[1].sock = "open" /\ bridges[1].handler

\* The orders in which a call may have requested audio from the providers.
ChainOrders ==
    {<<>>, <<"deepgram">>, <<"elevenlabs">>, <<"openai">>,
     <<"deepgram", "elevenlabs">>, <<"deepgram", "openai">>,
     <<"elevenlabs", "openai">>, <<"deepgram", "elevenlabs", "openai">>}

Tried(t, provider) == \E i \in 1..Len(t.tried) : t.tried[i] = provider

Blank(text) == text = NoVal \/ Trim(text) = <<>>

\* C40: a runBrain call never resolves with a blank reply, so no agent turn
\* of the history is blank.  Without client it resolves with the no-key
\* message, without choice with the no-response message, and for a message
\* without tool call whose text is missing, empty or whitespace, or such a
\* follow-up text, with a fixed message.  A call runs at most one tool and
\* makes at most two completion requests.
C40_NoBlankReply ==
    [][/\ brain'.pc = "resolved" => ~Blank(brain'.result)
       /\ \A i \in 1..Len(messages') :
            messages'[i].role = "assistant" => ~Blank(messages'[i].content)
       /\ RunBrainCall(FALSE) => brain'.result = NoKeyMessage
       /\ \A choice \in Choices :
            /\ (CompletionReturn(choice) /\ choice.none) =>
                   brain'.result = NoChoiceMessage
            /\ (CompletionReturn(choice) /\ ~choice.none
                /\ choice.toolCalls = 0 /\ Blank(choice.content)) =>
                   brain'.result = AnythingElseMessage
            /\ (FollowUpReturn(choice) /\ Blank(choice.content)) =>
                   brain'.result = DoneMessage
       /\ brain'.tools <= 1
       /\ brain'.requests <= 2
      ]_vars

\* A call that ran a tool and made two requests resolved with the fixed
\* follow-up message, which is the agent turn of the first run.
C40_Witness ==
    /\ brain.pc = "resolved" /\ brain.tools = 1 /\ brain.requests = 2
    /\ brain.result = DoneMessage
    /\ Len(messages) = 2 /\ messages[2].role = "assistant"
    /\ messages[2].content = DoneMessage

\* The state of session s, whether its handlers run or not.
SessionOf(s) == IF cur = s THEN Session ELSE peer

\* C31: an event of one session leaves the state of the other session, that
\* is its history, flags, stream id, vertical, timers, bridge, runs and
\* channel, as it was, and handing the event loop to the other session
\* changes the state of neither; the process-wide configuration never
\* changes.
C31_SessionsIsolated ==
    [][/\ Switch => /\ SessionOf(1)' = SessionOf(1)
                    /\ SessionOf(2)' = SessionOf(2)
       /\ ~Switch => /\ cur' = cur
                     /\ SessionOf(3 - cur)' = SessionOf(3 - cur)
       /\ dg' = dg
      ]_vars

\* Both sessions are in the middle of a run with their own history, stream
\* bound and bridge; the second one's timer has fired.
C31_Witness ==
    /\ cur = 1
    /\ runs[1].pc = "tts" /\ Len(messages) = 2 /\ sttStream = 1
    /\ peer.runs[1].pc = "brain" /\ Len(peer.messages) = 1
    /\ peer.runs[1].timeout = "fired"
    /\ peer.streamSid # NoVal /\ streamSid = NoVal
    /\ peer.ws = "OPEN" /\ ws = "OPEN"
=========================================================================
